---------------------------- MODULE Spec2Model ----------------------------
(***************************************************************************)
(* A model of the SEO blog pipeline of src/src/main.py: the keyword        *)
(* variation generator and scorer, the content templater, the post         *)
(* scorers, the metadata derivers, the markdown renderer and the pipeline  *)
(* object that accumulates their results.                                  *)
(*                                                                         *)
(* A Python str is a sequence of one-character strings. Str turns a        *)
(* literal into that form.                                                 *)
(***************************************************************************)
EXTENDS Integers, Sequences, FiniteSets, TLC

VARIABLES
    products,             \* self.products
    keywords_database,    \* self.keywords_database: product id -> top keywords
    blog_posts,           \* self.blog_posts
    performance_metrics,  \* self.performance_metrics
    hashseed,             \* the process's string-hash seed (PYTHONHASHSEED)
    last,                 \* the outcome of the latest pipeline call
    pc,                   \* position of a function-level run
    input,                \* the arguments of a function-level run
    output                \* the value a function-level run returned

vars == <<products, keywords_database, blog_posts, performance_metrics,
          hashseed, last, pc, input, output>>

pipeline_vars == <<products, keywords_database, blog_posts,
                   performance_metrics, hashseed, last>>

(***************************************************************************)
(* Strings                                                                 *)
(***************************************************************************)
Str(s) == [i \in 1..Len(s) |-> SubSeq(s, i, i)]

Range(s) == {s[i] : i \in DOMAIN s}

UpperChars == Str("ABCDEFGHIJKLMNOPQRSTUVWXYZ")

LowerChars == Str("abcdefghijklmnopqrstuvwxyz")

DigitChars == Str("0123456789")

UpperSet == Range(UpperChars)

LowerSet == Range(LowerChars)

DigitSet == Range(DigitChars)

\* str.split() with no argument splits on runs of these.
WhitespaceSet == {" ", "\n", "\t"}

\* Characters of the inputs that are letters outside ASCII.
OtherLetterSet == {"é"}

Min(a, b) == IF a <= b THEN a ELSE b

Max(a, b) == IF a >= b THEN a ELSE b

\* The concatenation of piece(lo), ..., piece(hi), halving the range.
RECURSIVE FlatMap(_, _, _)
FlatMap(piece(_), lo, hi) ==
    IF lo > hi THEN <<>>
    ELSE IF lo = hi THEN piece(lo)
    ELSE LET mid == (lo + hi) \div 2
         IN  FlatMap(piece, lo, mid) \o FlatMap(piece, mid + 1, hi)

\* The sum of term(lo), ..., term(hi), halving the range.
RECURSIVE SumRange(_, _, _)
SumRange(term(_), lo, hi) ==
    IF lo > hi THEN 0
    ELSE IF lo = hi THEN term(lo)
    ELSE LET mid == (lo + hi) \div 2
         IN  SumRange(term, lo, mid) + SumRange(term, mid + 1, hi)

\* The concatenation of the sequences of a sequence.
Concat(seqs) == FlatMap(LAMBDA i : seqs[i], 1, Len(seqs))

\* sep.join(seqs)
Join(sep, seqs) ==
    FlatMap(LAMBDA i : IF i = 1 THEN seqs[i] ELSE sep \o seqs[i], 1, Len(seqs))

\* The elements of s at the indices where keep holds, in order.
Filter(s, keep(_)) ==
    FlatMap(LAMBDA i : IF keep(i) THEN <<s[i]>> ELSE <<>>, 1, Len(s))

ToLowerChar(c) ==
    IF c \in UpperSet
    THEN LowerChars[CHOOSE i \in 1..26 : UpperChars[i] = c]
    ELSE c

ToUpperChar(c) ==
    IF c \in LowerSet
    THEN UpperChars[CHOOSE i \in 1..26 : LowerChars[i] = c]
    ELSE c

\* str.lower()
lower(s) == [i \in 1..Len(s) |-> ToLowerChar(s[i])]

\* str.title(): a cased character is upper case after an uncased one and
\* lower case after a cased one.
title(s) ==
    [i \in 1..Len(s) |->
        IF i > 1 /\ s[i - 1] \in UpperSet \cup LowerSet
        THEN ToLowerChar(s[i])
        ELSE ToUpperChar(s[i])]

\* needle in hay
Contains(hay, needle) ==
    \E i \in 0..(Len(hay) - Len(needle)) :
        \A j \in 1..Len(needle) : hay[i + j] = needle[j]

\* hay.startswith(prefix)
StartsWith(hay, prefix) ==
    /\ Len(prefix) <= Len(hay)
    /\ \A j \in 1..Len(prefix) : hay[j] = prefix[j]

\* s.count(c) for a one-character c
CountChar(s, c) == Cardinality({i \in 1..Len(s) : s[i] = c})

\* Whether a whitespace-delimited word of s starts at i.
IsWordStart(s, i) ==
    /\ s[i] \notin WhitespaceSet
    /\ (i = 1 \/ s[i - 1] \in WhitespaceSet)

\* The indices where a whitespace-delimited word of s starts.
WordStarts(s) == {i \in 1..Len(s) : IsWordStart(s, i)}

\* The index where the word that starts at i ends.
WordEnd(s, i) ==
    CHOOSE j \in i..Len(s) :
        /\ (j = Len(s) \/ s[j + 1] \in WhitespaceSet)
        /\ \A k \in i..j : s[k] \notin WhitespaceSet

\* len(s.split())
WordCount(s) == Cardinality(WordStarts(s))

\* s.split()
Split(s) ==
    FlatMap(LAMBDA i : IF IsWordStart(s, i)
                       THEN <<SubSeq(s, i, WordEnd(s, i))>>
                       ELSE <<>>,
            1, Len(s))

\* s.strip(c) for a one-character c
StripChar(s, c) ==
    LET keep == {i \in 1..Len(s) : s[i] # c}
    IN  IF keep = {} THEN <<>>
        ELSE SubSeq(s, CHOOSE i \in keep : \A j \in keep : i <= j,
                       CHOOSE i \in keep : \A j \in keep : i >= j)

(***************************************************************************)
(* Metadata derivers                                                       *)
(***************************************************************************)
SlugMax == 60

IsSlugChar(c) == c \in LowerSet \cup DigitSet

\* re.sub(r'[^a-z0-9]+', '-', s): every maximal run of other characters
\* becomes one hyphen.
SubNonAlnumRuns(s) ==
    FlatMap(LAMBDA i : IF IsSlugChar(s[i]) THEN <<s[i]>>
                       ELSE IF i = 1 \/ IsSlugChar(s[i - 1]) THEN <<"-">>
                       ELSE <<>>,
            1, Len(s))

_generate_slug(t) ==
    LET slug1 == lower(t)
        slug2 == SubNonAlnumRuns(slug1)
        slug3 == StripChar(slug2, "-")
    IN  SubSeq(slug3, 1, Min(SlugMax, Len(slug3)))


(***************************************************************************)
(* The string hash. CPython keys the hash of a str with a seed drawn once  *)
(* per process, so hash(s) is a function of the process's seed and of s.   *)
(* Here: a keyed positional sum over the characters' codes.                *)
(***************************************************************************)
CharTable ==
    LowerChars \o UpperChars \o DigitChars \o Str(" -_.,:;!?'#*$/()&%+\n\t")

CharCodes ==
    LET codes == {<<CharTable[i], i>> : i \in 1..Len(CharTable)}
    IN  [c \in Range(CharTable) |-> CHOOSE i \in 1..Len(CharTable) : <<c, i>> \in codes]

Ord(c) == IF c \in DOMAIN CharCodes THEN CharCodes[c] ELSE Len(CharTable) + 1

StrHash(seed, s) == SumRange(LAMBDA i : (i + seed) * Ord(s[i]), 1, Len(s))

\* The indices 1..n ordered by Before, a strict total order on them.
OrderBy(n, Before(_, _)) ==
    LET rank == FlatMap(LAMBDA i :
                    <<Cardinality({j \in 1..n : Before(j, i)}) + 1>>, 1, n)
    IN  FlatMap(LAMBDA k : <<CHOOSE i \in 1..n : rank[i] = k>>, 1, n)

\* list(set(ins)): the distinct elements of ins in the set's iteration
\* order, which follows the elements' hashes.
SetToList(seed, ins) ==
    LET first == Filter(ins, LAMBDA i : \A j \in 1..(i - 1) : ins[j] # ins[i])
        n     == Len(first)
        h     == FlatMap(LAMBDA i : <<StrHash(seed, first[i])>>, 1, n)
        order == OrderBy(n, LAMBDA j, i :
                     h[j] < h[i] \/ (h[j] = h[i] /\ j < i))
    IN  FlatMap(LAMBDA k : <<first[order[k]]>>, 1, n)

(***************************************************************************)
(* Keyword research                                                        *)
(***************************************************************************)
\* \w of the re module
IsWordChar(c) == c \in LowerSet \cup UpperSet \cup DigitSet \cup OtherLetterSet \cup {"_"}

\* re.findall(r'\b[a-zA-Z]{4,}\b', s): the maximal runs of word characters
\* that are ASCII letters throughout and at least four of them.
FindAlphaTokens(s) ==
    LET starts == {i \in 1..Len(s) :
                      IsWordChar(s[i]) /\ (i = 1 \/ ~IsWordChar(s[i - 1]))}
        stop(i) == CHOOSE j \in i..Len(s) :
                      /\ \A k \in i..j : IsWordChar(s[k])
                      /\ (j = Len(s) \/ ~IsWordChar(s[j + 1]))
        token(i) == /\ i \in starts
                    /\ stop(i) - i + 1 >= 4
                    /\ \A k \in i..stop(i) : s[k] \in LowerSet \cup UpperSet
    IN  FlatMap(LAMBDA i : IF token(i) THEN <<SubSeq(s, i, stop(i))>> ELSE <<>>,
                1, Len(s))

\* The modifiers dict, in its insertion order.
modifiers ==
    << [intent |-> "informational",
        mods |-> <<Str("best"), Str("top"), Str("guide"), Str("review"),
                   Str("comparison")>>],
       [intent |-> "commercial",
        mods |-> <<Str("buy"), Str("affordable"), Str("cheap"), Str("deals"),
                   Str("discount")>>],
       [intent |-> "transactional",
        mods |-> <<Str("price"), Str("sale"), Str("order"), Str("shop")>>],
       [intent |-> "temporal",
        mods |-> <<Str("2025"), Str("new"), Str("latest"), Str("trending")>>] >>

\* [t for t in base_terms if len(t) > 4][:3]
CoreTerms(base_terms) ==
    LET long == Filter(base_terms, LAMBDA i : Len(base_terms[i]) > 4)
    IN  SubSeq(long, 1, Min(3, Len(long)))

\* What the loops add to the set for one term, in the order they add it.
TermVariations(term, category) ==
    <<term>>
    \o FlatMap(LAMBDA m :
           LET mods == SubSeq(modifiers[m].mods, 1, Min(2, Len(modifiers[m].mods)))
           IN  FlatMap(LAMBDA k : << mods[k] \o Str(" ") \o term,
                                     term \o Str(" ") \o mods[k] >>,
                       1, Len(mods)),
           1, Len(modifiers))
    \o << term \o Str(" ") \o lower(category) >>

\* Everything _generate_keyword_variations adds to the set, in order.
VariationInsertions(base_terms, category) ==
    LET core_terms == CoreTerms(base_terms)
    IN  FlatMap(LAMBDA t : TermVariations(core_terms[t], category),
                1, Len(core_terms))
        \o (IF Len(core_terms) >= 2
            THEN << core_terms[1] \o Str(" ") \o core_terms[2],
                    Str("best ") \o core_terms[1] \o Str(" ") \o core_terms[2] >>
            ELSE <<>>)

_generate_keyword_variations(seed, base_terms, category) ==
    SetToList(seed, VariationInsertions(base_terms, category))

\* _estimate_search_volume with the two-word bonus given to every keyword
\* of two or more words.
_estimate_search_volume_AtLeastTwoWords(keyword) ==
    LET base_score == 50
        s1 == IF Contains(keyword, Str("best")) \/ Contains(keyword, Str("top"))
              THEN base_score + 20 ELSE base_score
        s2 == IF Contains(keyword, Str("2025")) \/ Contains(keyword, Str("new"))
              THEN s1 + 15 ELSE s1
        s3 == IF WordCount(keyword) >= 2 THEN s2 + 10 ELSE s2
    IN  Min(s3, 100)

_estimate_search_volume(keyword) ==
    LET base_score == 50
        s1 == IF Contains(keyword, Str("best")) \/ Contains(keyword, Str("top"))
              THEN base_score + 20 ELSE base_score
        s2 == IF Contains(keyword, Str("2025")) \/ Contains(keyword, Str("new"))
              THEN s1 + 15 ELSE s1
        s3 == IF WordCount(keyword) = 2 THEN s2 + 10 ELSE s2
    IN  Min(s3, 100)

_estimate_difficulty(keyword) ==
    LET base_difficulty == 40
        word_count == WordCount(keyword)
        d == IF word_count = 1 THEN base_difficulty + 30
             ELSE IF word_count = 2 THEN base_difficulty + 10
             ELSE base_difficulty
    IN  Min(d, 100)

_calculate_relevance(keyword, word_count) ==
    LET relevance == 70
        r == IF word_count >= 3 THEN relevance + 20 ELSE relevance
    IN  Min(r, 100)

\* One record of _analyze_keywords. seo_score is kept in hundredths:
\* round(v*0.4 + (100-d)*0.3 + r*0.3, 2) is 40v + 30(100-d) + 30r of them.
AnalyzeKeyword(kw) ==
    LET word_count == WordCount(kw)
        volume_score == _estimate_search_volume(kw)
        difficulty_score == _estimate_difficulty(kw)
        relevance_score == _calculate_relevance(kw, word_count)
        seo_score == volume_score * 40 + (100 - difficulty_score) * 30
                     + relevance_score * 30
    IN  [keyword |-> kw,
         volume |-> volume_score * 100,
         difficulty |-> difficulty_score,
         relevance |-> relevance_score,
         seo_score |-> seo_score,
         word_count |-> word_count]

_analyze_keywords(keywords) ==
    FlatMap(LAMBDA i : <<AnalyzeKeyword(keywords[i])>>, 1, Len(keywords))

\* An ascending sort reversed: descending, but equal scores come out in
\* the reverse of the order they came in.
SortedBySeoScoreDesc_ReversedAscending(analyzed) ==
    LET n == Len(analyzed)
        order == OrderBy(n, LAMBDA j, i :
                     \/ analyzed[j].seo_score > analyzed[i].seo_score
                     \/ /\ analyzed[j].seo_score = analyzed[i].seo_score
                        /\ j > i)
    IN  FlatMap(LAMBDA k : <<analyzed[order[k]]>>, 1, n)

\* sorted(analyzed, key=seo_score, reverse=True): descending, and equal
\* scores keep the order they came in.
SortedBySeoScoreDesc(analyzed) ==
    LET n == Len(analyzed)
        order == OrderBy(n, LAMBDA j, i :
                     \/ analyzed[j].seo_score > analyzed[i].seo_score
                     \/ /\ analyzed[j].seo_score = analyzed[i].seo_score
                        /\ j < i)
    IN  FlatMap(LAMBDA k : <<analyzed[order[k]]>>, 1, n)

\* sorted(...)[:4]
TopKeywords(analyzed) ==
    LET ranked == SortedBySeoScoreDesc(analyzed)
    IN  SubSeq(ranked, 1, Min(4, Len(ranked)))

\* What research_seo_keywords computes for a title and a category:
\* the tokens, the variations, their analysis and the top four.
ResearchKeywords(seed, ptitle, category) ==
    LET title_words == FindAlphaTokens(lower(ptitle))
        keywords == _generate_keyword_variations(seed, title_words, category)
        analyzed_keywords == _analyze_keywords(keywords)
    IN  [title_words |-> title_words,
         keywords |-> keywords,
         analyzed_keywords |-> analyzed_keywords,
         top_keywords |-> TopKeywords(analyzed_keywords)]

(***************************************************************************)
(* Post scorers                                                            *)
(***************************************************************************)
cta_words == <<Str("discover"), Str("check"), Str("buy"), Str("shop"),
               Str("get"), Str("try"), Str("order")>>

\* sum(1 for kw in keywords if kw.lower() in content_lower)
KeywordsFound(content, keywords) ==
    LET content_lower == lower(content)
    IN  Cardinality({i \in 1..Len(keywords) :
                        Contains(content_lower, lower(keywords[i]))})

\* The length bonus of the SEO score.
LengthBonus(word_count) ==
    IF 150 <= word_count /\ word_count <= 200 THEN 20
    ELSE IF 140 <= word_count /\ word_count <= 210 THEN 15
    ELSE 0

\* The score or the exception of _calculate_blog_seo_score. int() of the
\* float sum is the floor of the exact sum for every list the model draws.
_calculate_blog_seo_score(content, keywords) ==
    IF Len(keywords) = 0
    THEN [status |-> "ZeroDivisionError", value |-> 0]
    ELSE LET content_lower == lower(content)
             coverage == (KeywordsFound(content, keywords) * 40) \div Len(keywords)
             heading == IF StartsWith(content, Str("#")) THEN 20 ELSE 0
             cta == IF \E w \in 1..Len(cta_words) :
                           Contains(content_lower, cta_words[w])
                    THEN 20 ELSE 0
             score == coverage + LengthBonus(WordCount(content)) + heading + cta
         IN  [status |-> "ok", value |-> Min(score, 100)]

VowelSet == {"a", "e", "i", "o", "u", "y"}

\* _count_syllables of the word s[i..j]
_count_syllables(s, i, j) ==
    LET groups == Cardinality({k \in i..j :
                      /\ ToLowerChar(s[k]) \in VowelSet
                      /\ (k = i \/ ToLowerChar(s[k - 1]) \notin VowelSet)})
        count == IF ToLowerChar(s[j]) = "e" THEN groups - 1 ELSE groups
    IN  IF count = 0 THEN 1 ELSE count

\* sum(self._count_syllables(word) for word in content.split())
SyllableCount(content) ==
    SumRange(LAMBDA i : IF IsWordStart(content, i)
                      THEN _count_syllables(content, i, WordEnd(content, i))
                      ELSE 0,
             1, Len(content))

\* n / d rounded to the nearest integer, halves to the even one (d > 0).
RoundDiv(n, d) ==
    LET q == n \div d
        r == n % d
    IN  IF 2 * r < d THEN q
        ELSE IF 2 * r > d THEN q + 1
        ELSE IF q % 2 = 0 THEN q ELSE q + 1

\* The Flesch score 206.835 - 1.015 (words/sentences) - 84.6 (syllables/words)
\* as the fraction num / den, den > 0.
FleschNum(sentences, words, syllables) ==
    206835 * sentences * words - 1015 * words * words - 84600 * syllables * sentences

FleschDen(sentences, words) == 1000 * sentences * words

\* _calculate_readability without max(0, min(100, score)).
_calculate_readability_Unclamped(content) ==
    LET sentences == CountChar(content, ".") + CountChar(content, "!")
                     + CountChar(content, "?")
        words == WordCount(content)
        syllables == SyllableCount(content)
        num == FleschNum(sentences, words, syllables)
        den == FleschDen(sentences, words)
    IN  IF sentences = 0 \/ words = 0 THEN 500
        ELSE IF num <= 0 THEN 0 - RoundDiv(10 * (0 - num), den)
        ELSE RoundDiv(10 * num, den)

\* _calculate_readability, in tenths: 500 is 50.0.
_calculate_readability(content) ==
    LET sentences == CountChar(content, ".") + CountChar(content, "!")
                     + CountChar(content, "?")
        words == WordCount(content)
        syllables == SyllableCount(content)
        num == FleschNum(sentences, words, syllables)
        den == FleschDen(sentences, words)
    IN  IF sentences = 0 \/ words = 0 THEN 500
        ELSE IF num <= 0 THEN 0
        ELSE IF num >= 100 * den THEN 1000
        ELSE RoundDiv(10 * num, den)

\* The loop of _generate_meta_description from words[k] on, char_count
\* being the count so far: the number of words appended when it ends,
\* where a word that does not fit is passed over and the loop goes on.
RECURSIVE MetaWordsTaken_ContinueInsteadOfBreak(_, _, _)
MetaWordsTaken_ContinueInsteadOfBreak(words, k, char_count) ==
    IF k > Len(words) THEN <<>>
    ELSE IF char_count + Len(words[k]) + 1 <= 155
    THEN <<words[k]>> \o MetaWordsTaken_ContinueInsteadOfBreak(
                             words, k + 1, char_count + Len(words[k]) + 1)
    ELSE MetaWordsTaken_ContinueInsteadOfBreak(words, k + 1, char_count)

\* The loop of _generate_meta_description from words[k] on, char_count
\* being the count so far: the words appended until the first word that
\* does not fit (break) or the end of the list.
RECURSIVE MetaWordsTaken(_, _, _)
MetaWordsTaken(words, k, char_count) ==
    IF k > Len(words) THEN <<>>
    ELSE IF char_count + Len(words[k]) + 1 <= 155
    THEN <<words[k]>> \o MetaWordsTaken(words, k + 1,
                                        char_count + Len(words[k]) + 1)
    ELSE <<>>

\* _generate_meta_description: '#' removed, '\n' replaced by a space, the
\* words of the text taken by the loop, joined by spaces and followed by
\* '...'.
_generate_meta_description(content) ==
    LET unmarked == Filter(content, LAMBDA i : content[i] # "#")
        text == [i \in 1..Len(unmarked) |->
                    IF unmarked[i] = "\n" THEN " " ELSE unmarked[i]]
        words == Split(text)
        description == MetaWordsTaken(words, 1, 0)
    IN  Join(Str(" "), description) \o Str("...")

(***************************************************************************)
(* Content templater                                                       *)
(***************************************************************************)
\* The one-character string U+2013 of the first intro template.
EnDash == <<"en dash">>

\* hash(product_name) % len(templates), in the process whose seed is seed
TemplateIndex(seed, product_name) == StrHash(seed, product_name) % 3

_generate_headline(seed, product_name, main_keyword) ==
    LET templates ==
          << Str("# ") \o title(main_keyword) \o Str(": Why ") \o product_name
                 \o Str(" is Taking Over"),
             Str("# ") \o product_name \o Str(" Review: The Ultimate ")
                 \o title(main_keyword),
             Str("# Discover the ") \o title(main_keyword)
                 \o Str(" Everyone's Talking About") >>
    IN  templates[TemplateIndex(seed, product_name) + 1]

_generate_intro(seed, product, keywords) ==
    LET intro_templates ==
          << Str("In the world of ") \o lower(product.category)
                 \o Str(", finding the perfect ") \o keywords[1]
                 \o Str(" can feel overwhelming. Enter the ") \o product.title
                 \o Str(" ") \o EnDash
                 \o Str(" a game-changer that's earned an impressive ")
                 \o product.rating \o Str("-star rating from over ")
                 \o product.reviews \o Str(" satisfied customers."),
             Str("Looking for ") \o keywords[1] \o Str("? The ") \o product.title
                 \o Str(" has quickly become the go-to choice for savvy shoppers. With ")
                 \o product.reviews \o Str(" glowing reviews and a stellar ")
                 \o product.rating \o Str("-star rating, it's clear why this ")
                 \o keywords[2] \o Str(" stands out."),
             Str("When it comes to ") \o keywords[1] \o Str(", the ")
                 \o product.title \o Str(" sets a new standard. This top-rated ")
                 \o lower(product.category)
                 \o Str(" item has captured the attention of ") \o product.reviews
                 \o Str(" buyers who've given it an outstanding ")
                 \o product.rating \o Str("-star rating.") >>
    IN  intro_templates[TemplateIndex(seed, product.title) + 1]

_generate_body(product, keywords) ==
    LET body_parts ==
          << Str("What makes this ") \o keywords[2] \o Str(" special? ")
                 \o product.description \o Str(" At just ") \o product.price
                 \o Str(", it delivers exceptional value that's hard to match."),
             Str("Whether you're a first-time buyer or an experienced user looking for ")
                 \o keywords[3]
                 \o Str(", this product consistently exceeds expectations. The combination of quality, performance, and affordability makes it the ")
                 \o keywords[4] \o Str(" for anyone serious about their ")
                 \o lower(product.category) \o Str(" needs.") >>
    IN  Join(Str(" "), body_parts)

_generate_cta(seed, product_name, keyword) ==
    LET ctas ==
          << Str("Ready to experience the difference? Discover why the ")
                 \o product_name \o Str(" is the ") \o keyword
                 \o Str(" of choice for thousands of satisfied customers. Check it out today!"),
             Str("Don't miss out on this exceptional ") \o keyword
                 \o Str(". Join the community of happy ") \o product_name
                 \o Str(" users and see what all the excitement is about!"),
             Str("Transform your experience with the ") \o product_name
                 \o Str(". As the leading ") \o keyword
                 \o Str(", it's time to see why everyone's making the switch!") >>
    IN  ctas[TemplateIndex(seed, product_name) + 1]

\* _generate_structured_content: the content, or the IndexError of the
\* first keywords[k] past the end of the list (keywords[0] for the
\* headline, keywords[1] for the intro, keywords[2], keywords[3] for the
\* body).
_generate_structured_content(seed, product, keywords) ==
    IF Len(keywords) < 4
    THEN [status |-> "IndexError", content |-> <<>>]
    ELSE LET headline == _generate_headline(seed, product.title, keywords[1])
             intro == _generate_intro(seed, product, keywords)
             body == _generate_body(product, keywords)
             cta == _generate_cta(seed, product.title, keywords[1])
         IN  [status |-> "ok",
              content |-> headline \o Str("\n\n") \o intro \o Str("\n\n")
                          \o body \o Str("\n\n") \o cta]

generate_blog_content(seed, product, keywords) ==
    _generate_structured_content(seed, product, keywords)

(***************************************************************************)
(* Markdown renderer                                                       *)
(***************************************************************************)
\* s.split('\n')
Lines(s) ==
    FlatMap(LAMBDA i :
        IF i = 1 \/ s[i - 1] = "\n"
        THEN LET ends == {j \in (i - 1)..Len(s) : j = Len(s) \/ s[j + 1] = "\n"}
             IN  <<SubSeq(s, i, CHOOSE j \in ends : \A k \in ends : j <= k)>>
        ELSE <<>>,
        1, Len(s) + 1)

\* re.sub('^<marker> (.+)$', '<tag>\1</tag>') on one line: the line is a
\* heading when it starts with the marker and a space and goes on.
HeadingLine(line, marker, open, close) ==
    IF StartsWith(line, marker \o Str(" ")) /\ Len(line) > Len(marker) + 1
    THEN open \o SubSeq(line, Len(marker) + 2, Len(line)) \o close
    ELSE line

\* re.sub(delim (.+?) delim, open \1 close) on one line from index from
\* on: the leftmost delimiter that is followed, one character or more
\* later, by another, and the nearest such other.
RECURSIVE EmphasisFrom(_, _, _, _, _)
EmphasisFrom(line, from, delim, open, close) ==
    LET d == Len(delim)
        at(i) == \A k \in 1..d : line[i + k - 1] = delim[k]
        closers(i) == {j \in (i + d + 1)..(Len(line) - d + 1) : at(j)}
        openers == {i \in from..(Len(line) - d + 1) : at(i) /\ closers(i) # {}}
    IN  IF openers = {} THEN SubSeq(line, from, Len(line))
        ELSE LET i == CHOOSE x \in openers : \A y \in openers : x <= y
                 j == CHOOSE x \in closers(i) : \A y \in closers(i) : x <= y
             IN  SubSeq(line, from, i - 1) \o open \o SubSeq(line, i + d, j - 1)
                 \o close \o EmphasisFrom(line, j + d, delim, open, close)

\* s.replace('\n\n', '</p><p>'): in a run of newlines every odd one that
\* has a successor in the run is replaced together with that successor.
ReplaceBlankLines(s) ==
    LET place(i) == i - (CHOOSE j \in 0..i : s[j + 1] = "\n" /\
                             (\A k \in (j + 1)..i : s[k] = "\n") /\
                             (j = 0 \/ s[j] # "\n"))
    IN  FlatMap(LAMBDA i :
            IF s[i] # "\n" THEN <<s[i]>>
            ELSE IF place(i) % 2 = 0 THEN <<>>
            ELSE IF i < Len(s) /\ s[i + 1] = "\n" THEN Str("</p><p>")
            ELSE <<s[i]>>,
            1, Len(s))

\* s.replace(old, new) for an old that cannot overlap itself.
Replace(s, old, new) ==
    LET at(i) == /\ i >= 1
                 /\ i + Len(old) - 1 <= Len(s)
                 /\ \A k \in 1..Len(old) : s[i + k - 1] = old[k]
    IN  FlatMap(LAMBDA i :
            IF s[i] # old[1] /\ s[i] \notin Range(old) THEN <<s[i]>>
            ELSE IF at(i) THEN new
            ELSE IF \E b \in 1..(Len(old) - 1) : at(i - b) THEN <<>>
            ELSE <<s[i]>>,
            1, Len(s))

_markdown_to_html(markdown) ==
    LET lines == Lines(markdown)
        h1 == [l \in 1..Len(lines) |->
                  HeadingLine(lines[l], Str("#"), Str("<h1>"), Str("</h1>"))]
        h2 == [l \in 1..Len(lines) |->
                  HeadingLine(h1[l], Str("##"), Str("<h2>"), Str("</h2>"))]
        strong == [l \in 1..Len(lines) |->
                  EmphasisFrom(h2[l], 1, Str("**"), Str("<strong>"), Str("</strong>"))]
        em == [l \in 1..Len(lines) |->
                  EmphasisFrom(strong[l], 1, Str("*"), Str("<em>"), Str("</em>"))]
        html5 == ReplaceBlankLines(Join(Str("\n"), em))
        html6 == Str("<p>") \o html5 \o Str("</p>")
        html7 == Replace(Replace(html6, Str("<p><h1>"), Str("<h1>")),
                         Str("</h1></p>"), Str("</h1>"))
    IN  Replace(Replace(html7, Str("<p><h2>"), Str("<h2>")),
                Str("</h2></p>"), Str("</h2>"))

(***************************************************************************)
(* Products. An id is kept as one string, every other text field as a      *)
(* sequence of characters.                                                 *)
(***************************************************************************)
Product(id, t, price, rating, reviews, category, description, url, trend_score) ==
    [id |-> id, title |-> Str(t), price |-> Str(price), rating |-> Str(rating),
     reviews |-> Str(reviews), category |-> Str(category),
     description |-> Str(description), url |-> Str(url),
     trend_score |-> trend_score]

\* The list scrape_trending_products builds, in the order it is written.
trending_products ==
    << Product("PROD001", "Premium Noise Cancelling Wireless Headphones",
               "$129.99", "4.7", "45,678", "Electronics",
               "Immersive sound quality with 40-hour battery life and premium comfort",
               "https://example.com/headphones", 95),
       Product("PROD002", "Smart Watch Fitness Tracker with GPS",
               "$89.99", "4.6", "32,456", "Wearable Tech",
               "Track your health metrics with precision GPS and 7-day battery",
               "https://example.com/smartwatch", 92),
       Product("PROD003", "Portable Power Bank 20000mAh Fast Charging",
               "$39.99", "4.8", "28,901", "Mobile Accessories",
               "High-capacity power bank with USB-C fast charging technology",
               "https://example.com/powerbank", 88),
       Product("PROD004", "LED Desk Lamp with Wireless Charging Base",
               "$45.99", "4.5", "19,234", "Home Office",
               "Modern desk lamp with adjustable brightness and phone charging",
               "https://example.com/desklamp", 85) >>

\* sorted(trending_products, key=trend_score, reverse=True)
SortedByTrendScoreDesc(ps) ==
    LET order == OrderBy(Len(ps), LAMBDA j, i :
                     \/ ps[j].trend_score > ps[i].trend_score
                     \/ (ps[j].trend_score = ps[i].trend_score /\ j < i))
    IN  [k \in 1..Len(ps) |-> ps[order[k]]]

\* Products a caller hands to the pipeline that the scraper does not
\* return: one whose title has no word of more than four letters, one
\* whose title and description hold markdown's marker characters.
ShortWordsProduct ==
    Product("PROD005", "LED Desk Lamp", "$19.99", "4.2", "1,024",
            "Home Office", "Compact lamp with a warm light",
            "https://example.com/lamp", 80)

MarkerCharsProduct ==
    Product("PROD006", "C# Coding Handbook", "$29.99", "4.9", "2,048",
            "Books", "Rated 5* by professional readers\n### Third edition",
            "https://example.com/handbook", 75)

(***************************************************************************)
(* The pipeline object after construction, and the idle function-level     *)
(* run.                                                                    *)
(***************************************************************************)
MaxSeed == 1

Seeds == 0..MaxSeed

NoCall == [op |-> "none", status |-> "ok"]

PipelineInit ==
    /\ products = <<>>
    /\ keywords_database = <<>>
    /\ blog_posts = <<>>
    /\ performance_metrics = [products_processed |-> 0,
                              keywords_researched |-> 0,
                              blogs_generated |-> 0,
                              total_words |-> 0]
    /\ last = NoCall

(***************************************************************************)
(* _generate_slug applied to bounded titles: a run of MaxPad or fewer      *)
(* letters followed by any MaxTail or fewer characters of TailChars.       *)
(***************************************************************************)
MaxPad == 61

MaxTail == 3

TailChars == {"b", "Z", "7", " ", "-"}

Pad(n) == [i \in 1..n |-> "a"]

Tails(max_tail) == UNION {[1..n -> TailChars] : n \in 0..max_tail}

SlugTitles(max_pad, max_tail) ==
    {Pad(n) \o t : n \in 0..max_pad, t \in Tails(max_tail)}

SlugInit ==
    /\ PipelineInit
    /\ hashseed = 0
    /\ pc = "slug_call"
    /\ input \in SlugTitles(MaxPad, MaxTail)
    /\ output = <<>>

SlugCall ==
    /\ pc = "slug_call"
    /\ output' = _generate_slug(input)
    /\ pc' = "slug_done"
    /\ UNCHANGED <<input, pipeline_vars>>

SlugNext == SlugCall

SpecSlug == SlugInit /\ [][SlugNext]_vars

\* C1: a slug holds only lowercase alphanumerics and hyphens, neither
\* starts nor ends with a hyphen, and is at most 60 characters long.
C1_SlugWellFormed ==
    pc = "slug_done" =>
        /\ \A i \in 1..Len(output) : output[i] \in LowerSet \cup DigitSet \cup {"-"}
        /\ Len(output) > 0 => output[1] # "-" /\ output[Len(output)] # "-"
        /\ Len(output) <= 60


(***************************************************************************)
(* Keyword research applied to bounded titles: MaxTitleWords or fewer      *)
(* words of TitleWordPool, separated by spaces.                            *)
(***************************************************************************)
MaxTitleWords == 4

TitleWordPool == {Str("Desk"), Str("Watch"), Str("Laptop"), Str("Renewal")}

KwCategories == {Str("Electronics"), Str("Wearable Tech")}

KwTitles(max_words) ==
    {Join(Str(" "), ws) :
        ws \in UNION {[1..n -> TitleWordPool] : n \in 0..max_words}}

KwInit ==
    /\ PipelineInit
    /\ hashseed \in Seeds
    /\ pc = "kw_generate"
    /\ input \in [title : KwTitles(MaxTitleWords), category : KwCategories]
    /\ output = <<>>

\* research_seo_keywords up to the variation list
KwGenerate ==
    /\ pc = "kw_generate"
    /\ LET title_words == FindAlphaTokens(lower(input.title))
       IN  output' = [title_words |-> title_words,
                      keywords |-> _generate_keyword_variations(
                                       hashseed, title_words, input.category)]
    /\ pc' = "kw_rank"
    /\ UNCHANGED <<input, pipeline_vars>>

\* research_seo_keywords from the analysis to the top four
KwRank ==
    /\ pc = "kw_rank"
    /\ LET analyzed_keywords == _analyze_keywords(output.keywords)
       IN  output' = [title_words |-> output.title_words,
                      keywords |-> output.keywords,
                      analyzed_keywords |-> analyzed_keywords,
                      top_keywords |-> TopKeywords(analyzed_keywords)]
    /\ pc' = "kw_done"
    /\ UNCHANGED <<input, pipeline_vars>>

KwNext == KwGenerate \/ KwRank

SpecKeywords == KwInit /\ [][KwNext]_vars

\* The place of a keyword in the variation generator's output.
GeneratedAt(kw) == CHOOSE i \in 1..Len(output.keywords) : output.keywords[i] = kw

\* C6: the ranking is by combined score descending, holds at most four
\* entries, and returned keywords of equal score stand in the order the
\* variation generator gave them.
C6_RankingStable ==
    pc = "kw_done" =>
        LET top == output.top_keywords
        IN  /\ Len(top) <= 4
            /\ \A a, b \in 1..Len(top) :
                   a < b =>
                       /\ top[a].seo_score >= top[b].seo_score
                       /\ top[a].seo_score = top[b].seo_score =>
                              GeneratedAt(top[a].keyword) < GeneratedAt(top[b].keyword)

\* Four keywords were returned, two of them with the same score, out of a
\* list that holds that score more often than it was returned.
C6_Witness ==
    /\ pc = "kw_done"
    /\ Len(output.top_keywords) = 4
    /\ \E a, b \in 1..4 :
           /\ a < b
           /\ output.top_keywords[a].seo_score = output.top_keywords[b].seo_score
    /\ \E i \in 1..Len(output.analyzed_keywords) :
           /\ output.analyzed_keywords[i].seo_score = output.top_keywords[4].seo_score
           /\ \A a \in 1..4 :
                  output.top_keywords[a].keyword # output.analyzed_keywords[i].keyword

\* C8: a title with at least one alphabetic token of four or more letters
\* yields at least four distinct variations, hence four top keywords.
C8_AtLeastFourCandidates ==
    (pc \in {"kw_rank", "kw_done"} /\ Len(output.title_words) > 0) =>
        /\ Cardinality(Range(output.keywords)) >= 4
        /\ pc = "kw_done" => Len(output.top_keywords) = 4

\* The volume, difficulty and relevance the scorer's rules give a keyword.
RuleVolume(kw) ==
    LET two == IF Len(Split(kw)) = 2 THEN 10 ELSE 0
        hot == IF Contains(kw, Str("best")) \/ Contains(kw, Str("top")) THEN 20 ELSE 0
        recent == IF Contains(kw, Str("2025")) \/ Contains(kw, Str("new")) THEN 15 ELSE 0
    IN  Min(100, 50 + hot + recent + two)

RuleDifficulty(kw) ==
    40 + (IF Len(Split(kw)) = 1 THEN 30 ELSE 0) + (IF Len(Split(kw)) = 2 THEN 10 ELSE 0)

RuleRelevance(kw) == 70 + (IF Len(Split(kw)) >= 3 THEN 20 ELSE 0)

\* C10 as stated: every keyword record has volume, difficulty and
\* relevance in 0..100, and they are the scorer's rule values.
C10_FieldsAreScores ==
    pc = "kw_done" =>
        \A i \in 1..Len(output.analyzed_keywords) :
            LET r == output.analyzed_keywords[i]
            IN  /\ r.volume \in 0..100
                /\ r.difficulty \in 0..100
                /\ r.relevance \in 0..100
                /\ r.volume = RuleVolume(r.keyword)
                /\ r.difficulty = RuleDifficulty(r.keyword)
                /\ r.relevance = RuleRelevance(r.keyword)

\* C10 amended: difficulty and relevance are in 0..100 and are the rule
\* values; the volume field is one hundred times the rule's volume score,
\* which is in 0..100.
C10_VolumeIsScoreTimesHundred ==
    pc = "kw_done" =>
        \A i \in 1..Len(output.analyzed_keywords) :
            LET r == output.analyzed_keywords[i]
            IN  /\ RuleVolume(r.keyword) \in 0..100
                /\ r.volume = 100 * RuleVolume(r.keyword)
                /\ r.difficulty \in 0..100
                /\ r.relevance \in 0..100
                /\ r.difficulty = RuleDifficulty(r.keyword)
                /\ r.relevance = RuleRelevance(r.keyword)

\* The analysis holds a three-word keyword without bonus words, a two-word
\* keyword with both bonuses and a one-word keyword.
C10_Witness ==
    /\ pc = "kw_done"
    /\ \E i, j, k \in 1..Len(output.analyzed_keywords) :
           /\ output.analyzed_keywords[i].word_count = 3
           /\ output.analyzed_keywords[i].volume = 5000
           /\ output.analyzed_keywords[j].word_count = 2
           /\ output.analyzed_keywords[j].volume = 9500
           /\ output.analyzed_keywords[k].word_count = 1


(***************************************************************************)
(* _calculate_readability applied to bounded contents: MaxReadPieces or    *)
(* fewer pieces of ReadPieces, concatenated.                               *)
(***************************************************************************)
MaxReadPieces == 4

ReadPieces == {Str("b"), Str("E"), Str("ababa"), Str(" "), Str("."), Str("!"),
               Str("?")}

ReadContents(max_pieces) ==
    {Concat(ps) : ps \in UNION {[1..n -> ReadPieces] : n \in 0..max_pieces}}

ReadInit ==
    /\ PipelineInit
    /\ hashseed = 0
    /\ pc = "read_call"
    /\ input \in ReadContents(MaxReadPieces)
    /\ output = <<>>

ReadCall ==
    /\ pc = "read_call"
    /\ output' = _calculate_readability(input)
    /\ pc' = "read_done"
    /\ UNCHANGED <<input, pipeline_vars>>

ReadNext == ReadCall

SpecReadability == ReadInit /\ [][ReadNext]_vars

\* C5: the readability score is in [0,100] (0..1000 tenths) and is exactly
\* 50.0 when the content has no '.', '!' or '?' or has no words.
C5_ReadabilityInRange ==
    pc = "read_done" =>
        /\ output \in 0..1000
        /\ (\A i \in 1..Len(input) : input[i] \notin {".", "!", "?"}) => output = 500
        /\ Len(Split(input)) = 0 => output = 500

\* A content of several words and no terminal punctuation scored 50.0.
C5_Witness ==
    /\ pc = "read_done"
    /\ Len(Split(input)) >= 2
    /\ \A i \in 1..Len(input) : input[i] \notin {".", "!", "?"}
    /\ output = 500


(***************************************************************************)
(* _generate_meta_description applied to bounded contents: MaxMetaPieces   *)
(* or fewer pieces of MetaPieces, written one after the other.             *)
(***************************************************************************)
MaxMetaPieces == 4

MetaPieces == {Pad(150), Pad(156), Str("bb"), Str("c"), Str(" "), Str("#"),
               Str("\n")}

MetaContents(max_pieces) ==
    {Concat(ps) : ps \in UNION {[1..n -> MetaPieces] : n \in 0..max_pieces}}

MetaInit ==
    /\ PipelineInit
    /\ hashseed = 0
    /\ pc = "meta_call"
    /\ input \in MetaContents(MaxMetaPieces)
    /\ output = <<>>

MetaCall ==
    /\ pc = "meta_call"
    /\ output' = _generate_meta_description(input)
    /\ pc' = "meta_done"
    /\ UNCHANGED <<input, pipeline_vars>>

MetaNext == MetaCall

SpecMeta == MetaInit /\ [][MetaNext]_vars

\* The whitespace-delimited words of a content once its '#' are stripped.
MetaWords(content) == Split(Filter(content, LAMBDA i : content[i] # "#"))

\* The running character count of the first k words, each counted with
\* one separating space.
MetaRunningCount(words, k) == SumRange(LAMBDA i : Len(words[i]) + 1, 1, k)

\* C11: the meta description is at most 160 characters long with its
\* ellipsis, holds no '#' and no newline, and its body is the longest
\* prefix of the content's words whose running character count (each word
\* plus one separating space) is at most 155.
C11_MetaDescriptionIsLongestPrefix ==
    pc = "meta_done" =>
        LET words == MetaWords(input)
            body == SubSeq(output, 1, Len(output) - 3)
        IN  /\ Len(output) <= 160
            /\ \A i \in 1..Len(output) : output[i] \notin {"#", "\n"}
            /\ Len(output) >= 3
            /\ SubSeq(output, Len(output) - 2, Len(output)) = Str("...")
            /\ \E k \in 0..Len(words) :
                   /\ body = Join(Str(" "), SubSeq(words, 1, k))
                   /\ MetaRunningCount(words, k) <= 155
                   /\ k < Len(words) => MetaRunningCount(words, k + 1) > 155

\* A content whose words do not all fit: the description stops before
\* the word that would bring the running count over 155.
C11_Witness ==
    /\ pc = "meta_done"
    /\ LET words == MetaWords(input)
       IN  /\ Len(words) >= 2
           /\ MetaRunningCount(words, 1) <= 155
           /\ MetaRunningCount(words, 2) > 155
           /\ output = words[1] \o Str("...")

(***************************************************************************)
(* _calculate_blog_seo_score applied to bounded contents and keyword       *)
(* lists: a head of MaxSeoPieces or fewer pieces of SeoPieces followed by  *)
(* a run of filler words, scored against two keyword lists of one length.  *)
(***************************************************************************)
MaxSeoPieces == 3

MaxSeoKeywords == 2

SeoPieces == {Str("#"), Str(" "), Str("get"), Str("Red"), Str("hat")}

SeoKeywordPool == {Str("red"), Str("Hat")}

\* Filler word counts that, with the head's words, cross every threshold
\* of the length bonus.
SeoFillerWords == {0, 138, 148, 198, 208}

Filler(n) == FlatMap(LAMBDA i : Str(" w"), 1, n)

SeoContents(max_pieces) ==
    {Concat(ps) \o Filler(n) :
        ps \in UNION {[1..k -> SeoPieces] : k \in 0..max_pieces},
        n \in SeoFillerWords}

SeoInit ==
    /\ PipelineInit
    /\ hashseed = 0
    /\ pc = "seo_call"
    /\ \E n \in 0..MaxSeoKeywords :
           input \in [content : SeoContents(MaxSeoPieces),
                      keywords : [1..n -> SeoKeywordPool],
                      more : [1..n -> SeoKeywordPool]]
    /\ output = <<>>

\* The score of the content for the first list, then for the second.
SeoCall ==
    /\ pc = "seo_call"
    /\ output' = <<_calculate_blog_seo_score(input.content, input.keywords)>>
    /\ pc' = "seo_again"
    /\ UNCHANGED <<input, pipeline_vars>>

SeoCallAgain ==
    /\ pc = "seo_again"
    /\ output' = Append(output, _calculate_blog_seo_score(input.content, input.more))
    /\ pc' = "seo_done"
    /\ UNCHANGED <<input, pipeline_vars>>

SeoNext == SeoCall \/ SeoCallAgain

SpecSeo == SeoInit /\ [][SeoNext]_vars

\* C4: for every content and every keyword list the SEO score is an
\* integer in [0,100], and for one content (length, heading and CTA words
\* fixed) it does not decrease when more keywords are found.
C4_ScoreInRangeAndMonotone ==
    pc = "seo_done" =>
        /\ \A c \in 1..2 : output[c].status = "ok" /\ output[c].value \in 0..100
        /\ KeywordsFound(input.content, input.keywords)
               <= KeywordsFound(input.content, input.more)
           => output[1].value <= output[2].value

\* The same, for the lists that are not empty.
C4_NonEmptyListsInRangeAndMonotone ==
    (pc = "seo_done" /\ Len(input.keywords) > 0) =>
        /\ \A c \in 1..2 : output[c].status = "ok" /\ output[c].value \in 0..100
        /\ KeywordsFound(input.content, input.keywords)
               <= KeywordsFound(input.content, input.more)
           => output[1].value <= output[2].value


(***************************************************************************)
(* generate_blog_content in two executions of the program on the same      *)
(* product and keyword list. Each execution starts its interpreter, which  *)
(* draws the seed of hash(), and then generates the content; hashseed      *)
(* holds the seed of each execution.                                       *)
(***************************************************************************)
ContentProducts ==
    Range(trending_products) \cup {ShortWordsProduct, MarkerCharsProduct}

ContentKeywordLists ==
    { << Str("best wireless headphones"), Str("wireless headphones 2025"),
         Str("top headphones"), Str("headphones review") >>,
      << Str("best smart watch"), Str("smart watch"),
         Str("watch deals"), Str("fitness tracker") >>,
      << Str("coding handbook"), Str("best coding"),
         Str("handbook guide"), Str("coding online") >>,
      << Str("desk lamp") >> }

Runs == 1..2

RunsInit ==
    /\ PipelineInit
    /\ hashseed = [r \in Runs |-> 0]
    /\ pc = [r \in Runs |-> "start"]
    /\ input \in [product : ContentProducts, keywords : ContentKeywordLists]
    /\ output = [r \in Runs |-> NoCall]

StartInterpreter(r) ==
    /\ pc[r] = "start"
    /\ \E seed \in Seeds : hashseed' = [hashseed EXCEPT ![r] = seed]
    /\ pc' = [pc EXCEPT ![r] = "started"]
    /\ UNCHANGED <<input, output, products, keywords_database, blog_posts,
                   performance_metrics, last>>

RunGenerate(r) ==
    /\ pc[r] = "started"
    /\ output' = [output EXCEPT
                     ![r] = generate_blog_content(hashseed[r], input.product,
                                                  input.keywords)]
    /\ pc' = [pc EXCEPT ![r] = "done"]
    /\ UNCHANGED <<input, hashseed, products, keywords_database, blog_posts,
                   performance_metrics, last>>

RunsNext == \E r \in Runs : StartInterpreter(r) \/ RunGenerate(r)

SpecRuns == RunsInit /\ [][RunsNext]_vars

\* C3: two executions of generate_blog_content on the same product and the
\* same keyword list produce the same content (headline, intro, body, CTA).
C3_SameContentAcrossRuns ==
    (\A r \in Runs : pc[r] = "done") => output[1] = output[2]

(***************************************************************************)
(* research_seo_keywords in two executions of the program on the same      *)
(* product, each with the hash seed its interpreter drew.                  *)
(***************************************************************************)
KeywordRunsInit ==
    /\ PipelineInit
    /\ hashseed = [r \in Runs |-> 0]
    /\ pc = [r \in Runs |-> "start"]
    /\ input \in [product : ContentProducts]
    /\ output = [r \in Runs |-> NoCall]

RunResearch(r) ==
    /\ pc[r] = "started"
    /\ output' = [output EXCEPT
                     ![r] = ResearchKeywords(hashseed[r], input.product.title,
                                             input.product.category)]
    /\ pc' = [pc EXCEPT ![r] = "done"]
    /\ UNCHANGED <<input, hashseed, products, keywords_database, blog_posts,
                   performance_metrics, last>>

KeywordRunsNext == \E r \in Runs : StartInterpreter(r) \/ RunResearch(r)

SpecKeywordRuns == KeywordRunsInit /\ [][KeywordRunsNext]_vars

\* The distinct elements of ins, each at the place of its first occurrence.
InsertionOrder(ins) ==
    Filter(ins, LAMBDA i : \A j \in 1..(i - 1) : ins[j] # ins[i])

\* C12: the variations come in the insertion order of their first
\* occurrences, so two executions on the same product return the same
\* sequence of variations and select the same top keywords in the same
\* order.
C12_VariationsInInsertionOrder ==
    (\A r \in Runs : pc[r] = "done") =>
        /\ \A r \in Runs :
               output[r].keywords =
                   InsertionOrder(VariationInsertions(output[r].title_words,
                                                      input.product.category))
        /\ output[1].keywords = output[2].keywords
        /\ output[1].top_keywords = output[2].top_keywords

\* The part of C12 that is about the two executions only.
C12_SameKeywordsAcrossRuns ==
    (\A r \in Runs : pc[r] = "done") =>
        /\ output[1].keywords = output[2].keywords
        /\ output[1].top_keywords = output[2].top_keywords

(***************************************************************************)
(* The templater's content rendered by _markdown_to_html, as export_to_html *)
(* does for the content of a post.                                         *)
(***************************************************************************)
MdInit ==
    /\ PipelineInit
    /\ hashseed \in Seeds
    /\ pc = "md_start"
    /\ input \in [product : ContentProducts, keywords : ContentKeywordLists]
    /\ output = NoCall

MdGenerate ==
    /\ pc = "md_start"
    /\ output' = generate_blog_content(hashseed, input.product, input.keywords)
    /\ pc' = IF output'.status = "ok" THEN "md_generated" ELSE "md_failed"
    /\ UNCHANGED <<input, pipeline_vars>>

MdRender ==
    /\ pc = "md_generated"
    /\ output' = [status |-> "ok", content |-> output.content,
                  html |-> _markdown_to_html(output.content)]
    /\ pc' = "md_rendered"
    /\ UNCHANGED <<input, pipeline_vars>>

MdNext == MdGenerate \/ MdRender

SpecMarkdown == MdInit /\ [][MdNext]_vars

\* A '#' that opens a line or a paragraph of the rendered text.
RawHeadingMarker(html) ==
    \E i \in 1..Len(html) :
        /\ html[i] = "#"
        /\ \/ i = 1
           \/ html[i - 1] = "\n"
           \/ (i > 3 /\ SubSeq(html, i - 3, i - 1) = Str("<p>"))

RawEmphasisDelimiter(html) == \E i \in 1..Len(html) : html[i] = "*"

\* C7: the rendering of content produced by the templater holds no raw
\* heading marker and no raw emphasis delimiter.
C7_NoRawMarkers ==
    pc = "md_rendered" =>
        /\ ~RawHeadingMarker(output.html)
        /\ ~RawEmphasisDelimiter(output.html)

(***************************************************************************)
(* The pipeline object: any order of its public operations, on the         *)
(* scraper's products and on ShortWordsProduct.                            *)
(***************************************************************************)
MaxResearch == 2

MaxPosts == 2

PipelineProducts == {trending_products[1], trending_products[2], ShortWordsProduct}

Researched == DOMAIN keywords_database

scrape_trending_products ==
    /\ products' = SortedByTrendScoreDesc(trending_products)
    /\ performance_metrics' =
           [performance_metrics EXCEPT !.products_processed = Len(products')]
    /\ last' = [op |-> "scrape_trending_products", status |-> "ok"]
    /\ UNCHANGED <<keywords_database, blog_posts, hashseed, pc, input, output>>

\* The number of keywords stored across the entries of a keywords
\* database.
StoredKeywords(database) ==
    Cardinality({<<id, k>> \in (DOMAIN database) \X (1..4) :
                    k <= Len(database[id])})

\* research_seo_keywords with the counter set to the number of keywords
\* the database holds after the call.
research_seo_keywords_CountsStoredKeywords(product) ==
    /\ performance_metrics.keywords_researched < 4 * MaxResearch
    /\ \E top_keywords \in
           {ResearchKeywords(hashseed, product.title, product.category).top_keywords} :
           /\ keywords_database' =
                  [id \in Researched \cup {product.id} |->
                      IF id = product.id THEN top_keywords
                      ELSE keywords_database[id]]
           /\ performance_metrics' =
                  [performance_metrics EXCEPT
                      !.keywords_researched = StoredKeywords(keywords_database')]
           /\ last' = [op |-> "research_seo_keywords", status |-> "ok",
                       product_id |-> product.id,
                       returned |-> Len(top_keywords)]
    /\ UNCHANGED <<products, blog_posts, hashseed, pc, input, output>>

research_seo_keywords(product) ==
    /\ performance_metrics.keywords_researched < 4 * MaxResearch
    /\ \E top_keywords \in
           {ResearchKeywords(hashseed, product.title, product.category).top_keywords} :
           /\ keywords_database' =
                  [id \in Researched \cup {product.id} |->
                      IF id = product.id THEN top_keywords
                      ELSE keywords_database[id]]
           /\ performance_metrics' =
                  [performance_metrics EXCEPT
                      !.keywords_researched = @ + Len(top_keywords)]
           /\ last' = [op |-> "research_seo_keywords", status |-> "ok",
                       product_id |-> product.id,
                       returned |-> Len(top_keywords)]
    /\ UNCHANGED <<products, blog_posts, hashseed, pc, input, output>>

\* The post generate_blog_post builds once the content exists. The
\* generated_at timestamp is left out.
BlogPost(product, keyword_list, blog_content) ==
    [id |-> "BLOG_" \o product.id,
     product_id |-> product.id,
     product_name |-> product.title,
     content |-> blog_content,
     keywords |-> keyword_list,
     word_count |-> WordCount(blog_content),
     seo_score |-> _calculate_blog_seo_score(blog_content, keyword_list).value,
     readability_score |-> _calculate_readability(blog_content),
     meta_description |-> _generate_meta_description(blog_content),
     slug |-> _generate_slug(product.title)]

\* generate_blog_post(product, keywords) with the keywords researched for
\* the product: the post is appended and counted, or the templater's
\* IndexError leaves the pipeline as it was.
generate_blog_post(product) ==
    /\ product.id \in Researched
    /\ Len(blog_posts) < MaxPosts
    /\ LET keywords == keywords_database[product.id]
           keyword_list == [k \in 1..Len(keywords) |-> keywords[k].keyword]
       IN  \E generated \in {generate_blog_content(hashseed, product, keyword_list)} :
               IF generated.status # "ok"
               THEN /\ last' = [op |-> "generate_blog_post",
                                status |-> generated.status,
                                product_id |-> product.id,
                                keywords_given |-> Len(keywords)]
                    /\ UNCHANGED <<blog_posts, performance_metrics>>
               ELSE \E blog_post \in
                        {BlogPost(product, keyword_list, generated.content)} :
                        /\ blog_posts' = Append(blog_posts, blog_post)
                        /\ performance_metrics' =
                               [performance_metrics EXCEPT
                                   !.blogs_generated = @ + 1,
                                   !.total_words = @ + blog_post.word_count]
                        /\ last' = [op |-> "generate_blog_post", status |-> "ok",
                                    product_id |-> product.id,
                                    keywords_given |-> Len(keywords)]
    /\ UNCHANGED <<products, keywords_database, hashseed, pc, input, output>>

\* generate_comprehensive_report: the lookup of every researched product
\* in self.products (StopIteration when one is missing), then the
\* averages over the posts (ZeroDivisionError when there are none).
generate_comprehensive_report ==
    /\ last' =
          LET average_words == performance_metrics.total_words
                                 \div Max(performance_metrics.blogs_generated, 1)
          IN  IF \E id \in Researched :
                     \A p \in 1..Len(products) : products[p].id # id
              THEN [op |-> "generate_comprehensive_report",
                    status |-> "StopIteration"]
              ELSE IF Len(blog_posts) = 0
              THEN [op |-> "generate_comprehensive_report",
                    status |-> "ZeroDivisionError"]
              ELSE [op |-> "generate_comprehensive_report", status |-> "ok",
                    average_words |-> average_words,
                    avg_seo_score |->
                        RoundDiv(10 * SumRange(LAMBDA p : blog_posts[p].seo_score,
                                               1, Len(blog_posts)),
                                 Len(blog_posts)),
                    avg_readability |->
                        RoundDiv(SumRange(LAMBDA p : blog_posts[p].readability_score,
                                          1, Len(blog_posts)),
                                 Len(blog_posts))]
    /\ UNCHANGED <<products, keywords_database, blog_posts, performance_metrics,
                   hashseed, pc, input, output>>

Init ==
    /\ PipelineInit
    /\ hashseed \in Seeds
    /\ pc = "pipeline"
    /\ input = <<>>
    /\ output = <<>>

Next ==
    \/ scrape_trending_products
    \/ \E product \in PipelineProducts : research_seo_keywords(product)
    \/ \E product \in PipelineProducts : generate_blog_post(product)
    \/ generate_comprehensive_report

Spec == Init /\ [][Next]_vars

(***************************************************************************)
(* Two pipelines on one AdvancedSEOBlogPipeline, one product each          *)
(* (research_seo_keywords, then generate_blog_post on the keywords it      *)
(* returned), run by two threads of a concurrent host. A step is one       *)
(* access to the object's state: the store into keywords_database, the     *)
(* append to blog_posts, and the read and the write of each '+=' on a      *)
(* counter. output[t] holds the locals of thread t. In a host that         *)
(* serializes the calls (input.serialized) a thread takes a step only      *)
(* while the other thread is between two calls.                            *)
(***************************************************************************)
Threads == 1..2

Other(t) == 3 - t

BetweenCalls(t) == pc[t] \in {"research", "generate", "done", "failed"}

MayStep(t) == input.serialized => BetweenCalls(Other(t))

ThreadsInit ==
    /\ PipelineInit
    /\ hashseed \in Seeds
    /\ pc = [t \in Threads |-> "research"]
    /\ \E a \in PipelineProducts, b \in PipelineProducts, serialized \in BOOLEAN :
           /\ a # b
           /\ input = [product |-> <<a, b>>, serialized |-> serialized]
    /\ output = [t \in Threads |-> [top_keywords |-> <<>>, read |-> 0,
                                    word_count |-> 0]]

thread_unchanged == <<products, hashseed, last, input>>

\* research_seo_keywords up to self.keywords_database[product['id']] = ...
ThreadResearch(t) ==
    /\ pc[t] = "research"
    /\ MayStep(t)
    /\ \E top_keywords \in
           {ResearchKeywords(hashseed, input.product[t].title,
                             input.product[t].category).top_keywords} :
           /\ keywords_database' =
                  [id \in Researched \cup {input.product[t].id} |->
                      IF id = input.product[t].id THEN top_keywords
                      ELSE keywords_database[id]]
           /\ output' = [output EXCEPT ![t].top_keywords = top_keywords]
    /\ pc' = [pc EXCEPT ![t] = "keywords_researched_read"]
    /\ UNCHANGED <<blog_posts, performance_metrics, thread_unchanged>>

\* The read of self.performance_metrics['keywords_researched'] += ...
ReadKeywordsResearched(t) ==
    /\ pc[t] = "keywords_researched_read"
    /\ MayStep(t)
    /\ output' = [output EXCEPT ![t].read = performance_metrics.keywords_researched]
    /\ pc' = [pc EXCEPT ![t] = "keywords_researched_write"]
    /\ UNCHANGED <<keywords_database, blog_posts, performance_metrics,
                   thread_unchanged>>

\* The write of the counter with the number of keywords just selected,
\* as an assignment in place of '+=' would do.
WriteKeywordsResearched_AssignsInsteadOfAdds(t) ==
    /\ pc[t] = "keywords_researched_write"
    /\ MayStep(t)
    /\ performance_metrics' =
           [performance_metrics EXCEPT
               !.keywords_researched = Len(output[t].top_keywords)]
    /\ pc' = [pc EXCEPT ![t] = "generate"]
    /\ UNCHANGED <<keywords_database, blog_posts, output, thread_unchanged>>

\* The write of self.performance_metrics['keywords_researched'] += ...
WriteKeywordsResearched(t) ==
    /\ pc[t] = "keywords_researched_write"
    /\ MayStep(t)
    /\ performance_metrics' =
           [performance_metrics EXCEPT
               !.keywords_researched = output[t].read + Len(output[t].top_keywords)]
    /\ pc' = [pc EXCEPT ![t] = "generate"]
    /\ UNCHANGED <<keywords_database, blog_posts, output, thread_unchanged>>

\* generate_blog_post up to self.blog_posts.append(blog_post), or the
\* templater's IndexError, which ends the thread.
ThreadGenerate(t) ==
    /\ pc[t] = "generate"
    /\ MayStep(t)
    /\ LET keywords == output[t].top_keywords
           keyword_list == [k \in 1..Len(keywords) |-> keywords[k].keyword]
       IN  \E generated \in
               {generate_blog_content(hashseed, input.product[t], keyword_list)} :
               IF generated.status # "ok"
               THEN /\ pc' = [pc EXCEPT ![t] = "failed"]
                    /\ UNCHANGED <<blog_posts, output>>
               ELSE \E blog_post \in
                        {BlogPost(input.product[t], keyword_list,
                                  generated.content)} :
                        /\ blog_posts' = Append(blog_posts, blog_post)
                        /\ output' = [output EXCEPT
                                         ![t].word_count = blog_post.word_count]
                        /\ pc' = [pc EXCEPT ![t] = "blogs_generated_read"]
    /\ UNCHANGED <<keywords_database, performance_metrics, thread_unchanged>>

\* The read of self.performance_metrics['blogs_generated'] += 1
ReadBlogsGenerated(t) ==
    /\ pc[t] = "blogs_generated_read"
    /\ MayStep(t)
    /\ output' = [output EXCEPT ![t].read = performance_metrics.blogs_generated]
    /\ pc' = [pc EXCEPT ![t] = "blogs_generated_write"]
    /\ UNCHANGED <<keywords_database, blog_posts, performance_metrics,
                   thread_unchanged>>

\* The write of self.performance_metrics['blogs_generated'] += 1
WriteBlogsGenerated(t) ==
    /\ pc[t] = "blogs_generated_write"
    /\ MayStep(t)
    /\ performance_metrics' =
           [performance_metrics EXCEPT !.blogs_generated = output[t].read + 1]
    /\ pc' = [pc EXCEPT ![t] = "total_words_read"]
    /\ UNCHANGED <<keywords_database, blog_posts, output, thread_unchanged>>

\* The read of self.performance_metrics['total_words'] += word_count
ReadTotalWords(t) ==
    /\ pc[t] = "total_words_read"
    /\ MayStep(t)
    /\ output' = [output EXCEPT ![t].read = performance_metrics.total_words]
    /\ pc' = [pc EXCEPT ![t] = "total_words_write"]
    /\ UNCHANGED <<keywords_database, blog_posts, performance_metrics,
                   thread_unchanged>>

\* The write of self.performance_metrics['total_words'] += word_count
WriteTotalWords(t) ==
    /\ pc[t] = "total_words_write"
    /\ MayStep(t)
    /\ performance_metrics' =
           [performance_metrics EXCEPT
               !.total_words = output[t].read + output[t].word_count]
    /\ pc' = [pc EXCEPT ![t] = "done"]
    /\ UNCHANGED <<keywords_database, blog_posts, output, thread_unchanged>>

ThreadsNext ==
    \E t \in Threads :
        \/ ThreadResearch(t)
        \/ ReadKeywordsResearched(t)
        \/ WriteKeywordsResearched(t)
        \/ ThreadGenerate(t)
        \/ ReadBlogsGenerated(t)
        \/ WriteBlogsGenerated(t)
        \/ ReadTotalWords(t)
        \/ WriteTotalWords(t)

SpecThreads == ThreadsInit /\ [][ThreadsNext]_vars

\* What one product's pipeline, run alone, returns and appends: the
\* keywords of research_seo_keywords and the posts of generate_blog_post
\* (none when the templater raises).
PipelineKeywords(seed, product) ==
    ResearchKeywords(seed, product.title, product.category).top_keywords

PipelinePosts(seed, product) ==
    LET keywords == PipelineKeywords(seed, product)
        keyword_list == [k \in 1..Len(keywords) |-> keywords[k].keyword]
        generated == generate_blog_content(seed, product, keyword_list)
    IN  IF generated.status # "ok" THEN <<>>
        ELSE <<BlogPost(product, keyword_list, generated.content)>>

\* The state after the pipeline of product a and then the pipeline of
\* product b, on a new AdvancedSEOBlogPipeline.
OneAfterTheOther(seed, a, b) ==
    LET posts == PipelinePosts(seed, a) \o PipelinePosts(seed, b)
    IN  [keywords_database |->
             [id \in {a.id, b.id} |->
                 IF id = b.id THEN PipelineKeywords(seed, b)
                 ELSE PipelineKeywords(seed, a)],
         blog_posts |-> posts,
         keywords_researched |-> Len(PipelineKeywords(seed, a))
                                   + Len(PipelineKeywords(seed, b)),
         blogs_generated |-> Len(posts),
         total_words |-> SumRange(LAMBDA p : posts[p].word_count, 1, Len(posts))]

ThreadsResult ==
    [keywords_database |-> keywords_database,
     blog_posts |-> blog_posts,
     keywords_researched |-> performance_metrics.keywords_researched,
     blogs_generated |-> performance_metrics.blogs_generated,
     total_words |-> performance_metrics.total_words]

ThreadsFinished == \A t \in Threads : pc[t] \in {"done", "failed"}

EqualsOneAfterTheOther ==
    \/ ThreadsResult = OneAfterTheOther(hashseed, input.product[1], input.product[2])
    \/ ThreadsResult = OneAfterTheOther(hashseed, input.product[2], input.product[1])

\* C13: however the steps of the two products' pipelines are interleaved,
\* the blog posts, the keywords_database entries and the counters end up
\* as they do when the two pipelines run one after the other.
C13_InterleavedEqualsOneAfterTheOther ==
    ThreadsFinished => EqualsOneAfterTheOther

\* C13 as amended: when the calls of the two pipelines are interleaved
\* whole (no step of a call while a call of the other pipeline is under
\* way), they end up as when the two pipelines run one after the other.
C13_WholeCallsEqualOneAfterTheOther ==
    (ThreadsFinished /\ input.serialized) => EqualsOneAfterTheOther

\* Whole calls of the two pipelines have run, both posts exist and the
\* post of the second thread comes first.
C13_Witness ==
    /\ ThreadsFinished
    /\ input.serialized
    /\ Len(blog_posts) = 2
    /\ blog_posts[1].product_id = input.product[2].id
    /\ DOMAIN keywords_database = {input.product[1].id, input.product[2].id}
    /\ performance_metrics.keywords_researched = 8

\* C2: generate_blog_post called with fewer than four keywords completes
\* and appends a post whose keyword list is padded to four entries.
C2_FewKeywordsStillPost ==
    (last.op = "generate_blog_post" /\ last.keywords_given < 4) =>
        /\ last.status = "ok"
        /\ Len(blog_posts) > 0
        /\ Len(blog_posts[Len(blog_posts)].keywords) = 4
        /\ Len(blog_posts[Len(blog_posts)].keywords) = 4

\* C9: generate_comprehensive_report called while no post exists does not
\* fail with a division by zero.
C9_ReportWithoutPosts ==
    (last.op = "generate_comprehensive_report" /\ Len(blog_posts) = 0) =>
        last.status # "ZeroDivisionError"

\* C14: generate_comprehensive_report finds, for every product id of
\* keywords_database, a product of self.products, and does not fail on
\* the lookup, whatever calls came before.
C14_ReportResolvesResearchedProducts ==
    last.op = "generate_comprehensive_report" =>
        /\ last.status # "StopIteration"
        /\ \A id \in Researched : \E p \in 1..Len(products) : products[p].id = id

\* C15: blogs_generated is the number of posts and total_words the sum of
\* their word counts in every state, and every generate_blog_post call
\* appends exactly one post and leaves the earlier posts as they were.
C15_PostsAndCounters ==
    [][/\ performance_metrics'.blogs_generated = Len(blog_posts')
       /\ performance_metrics'.total_words =
              SumRange(LAMBDA p : blog_posts'[p].word_count, 1, Len(blog_posts'))
       /\ last'.op = "generate_blog_post" =>
              /\ Len(blog_posts') = Len(blog_posts) + 1
              /\ SubSeq(blog_posts', 1, Len(blog_posts)) = blog_posts]_vars

\* The part of C15 that is about the counters only.
C15_CountersMatchPosts ==
    /\ performance_metrics.blogs_generated = Len(blog_posts)
    /\ performance_metrics.total_words =
           SumRange(LAMBDA p : blog_posts[p].word_count, 1, Len(blog_posts))

=============================================================================
